---- MODULE Spec2Model ----
(***************************************************************************)
(* Field validation (DataVerifier) and field stepping (FieldStepper) of    *)
(* Rex, modelled from src/src/utility/traits/verifier.rs and stepper.rs.   *)
(*                                                                         *)
(* A text buffer is a sequence of one-character strings.  Every verify_*   *)
(* and step_* operator returns a record holding the rewritten buffer and   *)
(* the returned value; the actions apply them to the field under edit.     *)
(***************************************************************************)
EXTENDS Integers, Sequences, FiniteSets, TLC

VARIABLES
    field,          \* the field kind the buffer belongs to
    buf,            \* the text buffer (&mut String)
    all_tx_methods, \* store: ordered list of transaction method names
    all_tags,       \* store: ordered list of tag names
    autofill,       \* autofill hint handed to step_tags
    op,             \* last entry point called: "none", "verify", "step"
    step_type,      \* direction of the last step: "StepUp", "StepDown", "none"
    out,            \* last returned value: Accepted/NotAccepted/Nothing, Ok/Err, Panic
    why,            \* NAType of a NotAccepted, SteppingError of an Err, else "none"
    old,            \* the buffer as it was when the last entry point was called
    work,           \* verify_amount: working_value after each evaluation pass
    steps           \* number of step_amount calls made so far

vars == <<field, buf, all_tx_methods, all_tags, autofill, op, step_type, out, why, old, work, steps>>

----------------------------------------------------------------------------
(* Strings                                                                 *)

Digits == {"0", "1", "2", "3", "4", "5", "6", "7", "8", "9"}

UpperCase == <<"A", "B", "C", "D", "E", "F", "G", "H", "I", "J", "K", "L", "M",
               "N", "O", "P", "Q", "R", "S", "T", "U", "V", "W", "X", "Y", "Z">>

LowerCase == <<"a", "b", "c", "d", "e", "f", "g", "h", "i", "j", "k", "l", "m",
               "n", "o", "p", "q", "r", "s", "t", "u", "v", "w", "x", "y", "z">>

\* char::to_lowercase on the ASCII alphabet of the model
LowerChar(c) ==
    IF \E i \in DOMAIN UpperCase : UpperCase[i] = c
    THEN LowerCase[CHOOSE i \in DOMAIN UpperCase : UpperCase[i] = c]
    ELSE c

\* str::to_lowercase
to_lowercase(s) == [i \in DOMAIN s |-> LowerChar(s[i])]

\* char::is_numeric (ASCII digits are the numeric characters of the model)
is_numeric(c) == c \in Digits

\* char::is_whitespace
is_whitespace(c) == c = " "

\* Iterator::map over a sequence of strings
MapSeq(Op(_), list) == [i \in DOMAIN list |-> Op(list[i])]

\* Vec::contains
Contains(list, x) == \E i \in DOMAIN list : list[i] = x

\* Iterator::position: 0-based index of the first element satisfying Test, -1 for None
Position(list, Test(_)) ==
    IF \E i \in DOMAIN list : Test(list[i])
    THEN (CHOOSE i \in DOMAIN list : Test(list[i]) /\ \A j \in 1..(i - 1) : ~Test(list[j])) - 1
    ELSE -1

RECURSIVE SplitFrom(_, _, _, _, _)
SplitFrom(s, sep, i, cur, acc) ==
    IF i > Len(s) THEN Append(acc, cur)
    ELSE IF s[i] = sep THEN SplitFrom(s, sep, i + 1, <<>>, Append(acc, cur))
    ELSE SplitFrom(s, sep, i + 1, Append(cur, s[i]), acc)

\* str::split(char): the pieces between the separators, at least one piece
Split(s, sep) == SplitFrom(s, sep, 1, <<>>, <<>>)

RECURSIVE trim_start(_)
trim_start(s) ==
    IF s # <<>> /\ is_whitespace(Head(s)) THEN trim_start(Tail(s)) ELSE s

RECURSIVE trim_end(_)
trim_end(s) ==
    IF s # <<>> /\ is_whitespace(s[Len(s)]) THEN trim_end(SubSeq(s, 1, Len(s) - 1)) ELSE s

\* str::trim
trim(s) == trim_end(trim_start(s))

RECURSIVE join(_, _)
\* [String]::join(sep)
join(list, sep) ==
    IF list = <<>> THEN <<>>
    ELSE IF Len(list) = 1 THEN list[1]
    ELSE list[1] \o sep \o join(Tail(list), sep)

CommaSpace == <<",", " ">>

RECURSIVE UniqueAnyCaseFrom(_, _)
UniqueAnyCaseFrom(list, acc) ==
    IF list = <<>> THEN acc
    ELSE UniqueAnyCaseFrom(Tail(list),
             IF \E i \in DOMAIN acc : to_lowercase(acc[i]) = to_lowercase(Head(list))
             THEN acc ELSE Append(acc, Head(list)))

\* Unique with tokens compared ignoring case
UniqueAnyCase(list) == UniqueAnyCaseFrom(list, <<>>)

RECURSIVE UniqueFrom(_, _)
UniqueFrom(list, acc) ==
    IF list = <<>> THEN acc
    ELSE UniqueFrom(Tail(list), IF Contains(acc, Head(list)) THEN acc ELSE Append(acc, Head(list)))

\* the seen/unique loop: first occurrences, in order (HashSet::insert is case-sensitive)
Unique(list) == UniqueFrom(list, <<>>)

NonEmpty(s) == s # <<>>

\* the value a verify_* call returns, with the buffer it leaves
Verdict(b, o, w) == [buf |-> b, out |-> o, why |-> w]

----------------------------------------------------------------------------
(* Tags                                                                    *)

\* verify_tags_forced that leaves the unknown tokens in the buffer
verify_tags_forced_keeping(user_tag, tags) ==
    IF user_tag = <<>> THEN Verdict(user_tag, "Nothing", "none")
    ELSE LET splitted == SelectSeq(MapSeq(trim, Split(user_tag, ",")), NonEmpty)
             unique == Unique(splitted)
             InStore(tag) == Contains(tags, tag)
             kept == SelectSeq(unique, InStore)
         IN IF Len(unique) = Len(kept)
            THEN Verdict(join(unique, CommaSpace), "Accepted", "none")
            ELSE Verdict(join(unique, CommaSpace), "NotAccepted", "NonExistingTag")

\* verifier.rs verify_tags_forced
verify_tags_forced(user_tag, tags) ==
    IF user_tag = <<>> THEN Verdict(user_tag, "Nothing", "none")
    ELSE LET splitted == SelectSeq(MapSeq(trim, Split(user_tag, ",")), NonEmpty)
             unique == Unique(splitted)
             InStore(tag) == Contains(tags, tag)
             kept == SelectSeq(unique, InStore)
         IN IF Len(unique) = Len(kept)
            THEN Verdict(join(kept, CommaSpace), "Accepted", "none")
            ELSE Verdict(join(kept, CommaSpace), "NotAccepted", "NonExistingTag")

\* the value a step_* call returns, with the buffer it leaves; "Panic" is an abort of the process
Stepped(b, o, w) == [buf |-> b, out |-> o, why |-> w]

\* step_tags that stops at both ends of the store list
step_tags_clamped(user_tag, hint, step, tags) ==
    IF user_tag = <<>>
    THEN IF tags # <<>> THEN Stepped(tags[1], "Ok", "none")
         ELSE Stepped(user_tag, "Err", "InvalidTags")
    ELSE LET segments == MapSeq(trim, Split(user_tag, ","))
             last_tag == segments[Len(segments)]
             current_tags == SubSeq(segments, 1, Len(segments) - 1)
             Matches(tag) == to_lowercase(tag) = to_lowercase(last_tag)
             index == Position(tags, Matches)
             n == Len(tags)
             next_index == IF step = "StepUp" THEN (IF index = n - 1 THEN index ELSE index + 1)
                           ELSE IF index = 0 THEN 0 ELSE index - 1
         IN IF index = -1
            THEN IF last_tag = <<>>
                 THEN IF tags # <<>>
                      THEN Stepped(join(Append(current_tags, tags[1]), CommaSpace), "Ok", "none")
                      ELSE Stepped(join(current_tags, CommaSpace), "Ok", "none")
                 ELSE Stepped(join(Append(current_tags, hint), CommaSpace), "Err", "InvalidTags")
            ELSE Stepped(join(Append(current_tags, tags[next_index + 1]), CommaSpace), "Ok", "none")

\* step_tags that also removes the repeated tokens of the earlier segments
step_tags_deduplicating(user_tag, hint, step, tags) ==
    IF user_tag = <<>>
    THEN IF tags # <<>> THEN Stepped(tags[1], "Ok", "none")
         ELSE Stepped(user_tag, "Err", "InvalidTags")
    ELSE LET segments == MapSeq(trim, Split(user_tag, ","))
             last_tag == segments[Len(segments)]
             current_tags == Unique(SubSeq(segments, 1, Len(segments) - 1))
             Matches(tag) == to_lowercase(tag) = to_lowercase(last_tag)
             index == Position(tags, Matches)
             n == Len(tags)
             next_index == IF step = "StepUp" THEN (index + 1) % n
                           ELSE IF index = 0 THEN n - 1 ELSE (index - 1) % n
         IN IF index = -1
            THEN IF last_tag = <<>>
                 THEN IF tags # <<>>
                      THEN Stepped(join(Append(current_tags, tags[1]), CommaSpace), "Ok", "none")
                      ELSE Stepped(join(current_tags, CommaSpace), "Ok", "none")
                 ELSE Stepped(join(Append(current_tags, hint), CommaSpace), "Err", "InvalidTags")
            ELSE Stepped(join(Append(current_tags, tags[next_index + 1]), CommaSpace), "Ok", "none")

\* stepper.rs step_tags
step_tags(user_tag, hint, step, tags) ==
    IF user_tag = <<>>
    THEN IF tags # <<>> THEN Stepped(tags[1], "Ok", "none")
         ELSE Stepped(user_tag, "Err", "InvalidTags")
    ELSE LET segments == MapSeq(trim, Split(user_tag, ","))
             last_tag == segments[Len(segments)]
             current_tags == SubSeq(segments, 1, Len(segments) - 1)
             Matches(tag) == to_lowercase(tag) = to_lowercase(last_tag)
             index == Position(tags, Matches)
             n == Len(tags)
             next_index == IF step = "StepUp" THEN (index + 1) % n
                           ELSE IF index = 0 THEN n - 1 ELSE (index - 1) % n
         IN IF index = -1
            THEN IF last_tag = <<>>
                 THEN IF tags # <<>>
                      THEN Stepped(join(Append(current_tags, tags[1]), CommaSpace), "Ok", "none")
                      ELSE Stepped(join(current_tags, CommaSpace), "Ok", "none")
                 ELSE Stepped(join(Append(current_tags, hint), CommaSpace), "Err", "InvalidTags")
            ELSE Stepped(join(Append(current_tags, tags[next_index + 1]), CommaSpace), "Ok", "none")

----------------------------------------------------------------------------
(* Transaction type                                                        *)

Expense == <<"E", "x", "p", "e", "n", "s", "e">>
Income == <<"I", "n", "c", "o", "m", "e">>
Transfer == <<"T", "r", "a", "n", "s", "f", "e", "r">>

\* stepper.rs: let tx_types = ["Income", "Expense", "Transfer"]
tx_types == <<Income, Expense, Transfer>>

NotSpace(c) == c # " "

\* str::starts_with(char)
starts_with(s, c) == s # <<>> /\ s[1] = c

\* verify_tx_type that leaves an unrecognised text in the buffer
verify_tx_type_keeping(user_type) ==
    LET t == SelectSeq(user_type, NotSpace)
        l == to_lowercase(t)
    IN IF t = <<>> THEN Verdict(t, "Nothing", "none")
       ELSE IF starts_with(l, "e") THEN Verdict(Expense, "Accepted", "none")
       ELSE IF starts_with(l, "i") THEN Verdict(Income, "Accepted", "none")
       ELSE IF starts_with(l, "t") THEN Verdict(Transfer, "Accepted", "none")
       ELSE Verdict(t, "NotAccepted", "InvalidTxType")

\* verifier.rs verify_tx_type
verify_tx_type(user_type) ==
    LET t == SelectSeq(user_type, NotSpace)
        l == to_lowercase(t)
    IN IF t = <<>> THEN Verdict(t, "Nothing", "none")
       ELSE IF starts_with(l, "e") THEN Verdict(Expense, "Accepted", "none")
       ELSE IF starts_with(l, "i") THEN Verdict(Income, "Accepted", "none")
       ELSE IF starts_with(l, "t") THEN Verdict(Transfer, "Accepted", "none")
       ELSE Verdict(<<>>, "NotAccepted", "InvalidTxType")

\* step_tx_type that moves forward for both directions
step_tx_type_oneway(user_type, step) ==
    LET v == verify_tx_type(user_type)
        first == LowerChar(v.buf[1])
        current_index == IF first = "i" THEN 0
                         ELSE IF first = "e" THEN 1
                         ELSE IF first = "t" THEN 2
                         ELSE 0
        next_index == (current_index + 1) % Len(tx_types)
    IN IF v.buf = <<>> THEN Stepped(Income, "Ok", "none")
       ELSE IF v.out = "NotAccepted" THEN Stepped(tx_types[next_index + 1], "Err", "InvalidTxType")
       ELSE Stepped(tx_types[next_index + 1], "Ok", "none")

\* stepper.rs step_tx_type
step_tx_type(user_type, step) ==
    LET v == verify_tx_type(user_type)
        first == LowerChar(v.buf[1])
        current_index == IF first = "i" THEN 0
                         ELSE IF first = "e" THEN 1
                         ELSE IF first = "t" THEN 2
                         ELSE 0
        next_index == IF step = "StepUp" THEN (current_index + 1) % Len(tx_types)
                      ELSE (current_index + Len(tx_types) - 1) % Len(tx_types)
    IN IF v.buf = <<>> THEN Stepped(Income, "Ok", "none")
       ELSE IF v.out = "NotAccepted" THEN Stepped(tx_types[next_index + 1], "Err", "InvalidTxType")
       ELSE Stepped(tx_types[next_index + 1], "Ok", "none")

----------------------------------------------------------------------------
(* Transaction method                                                      *)

Min2(a, b) == IF a < b THEN a ELSE b

RECURSIVE EditRow(_, _, _, _, _)
\* one row of the edit-distance table: prev is the row of the shorter prefix of a
EditRow(prev, c, b, j, row) ==
    IF j > Len(b) THEN row
    ELSE EditRow(prev, c, b, j + 1,
                 Append(row, Min2(Min2(prev[j + 1] + 1, row[j] + 1),
                                  prev[j] + (IF b[j] = c THEN 0 ELSE 1))))

RECURSIVE EditRows(_, _, _, _)
EditRows(a, b, i, prev) ==
    IF i > Len(a) THEN prev
    ELSE EditRows(a, b, i + 1, EditRow(prev, a[i], b, 1, <<prev[1] + 1>>))

\* edit distance of a and b (insertions, deletions, substitutions)
EditDistance(a, b) == EditRows(a, b, 1, [j \in 1..(Len(b) + 1) |-> j - 1])[Len(b) + 1]

\* the fuzzy-match collaborator: the closest candidate, the first one on a tie;
\* without candidates there is nothing to suggest
get_best_match(query, candidates) ==
    IF candidates = <<>> THEN <<>>
    ELSE candidates[CHOOSE i \in DOMAIN candidates :
             /\ \A j \in DOMAIN candidates :
                    EditDistance(query, candidates[i]) <= EditDistance(query, candidates[j])
             /\ \A j \in 1..(i - 1) :
                    EditDistance(query, candidates[j]) > EditDistance(query, candidates[i])]

\* verify_tx_method that compares the names as they are written
verify_tx_method_exact(user_method, methods) ==
    LET t == trim(user_method)
        Matches(method) == method = t
        index == Position(methods, Matches)
    IN IF t = <<>> THEN Verdict(t, "Nothing", "none")
       ELSE IF index # -1 THEN Verdict(methods[index + 1], "Accepted", "none")
       ELSE Verdict(get_best_match(t, methods), "NotAccepted", "InvalidTxMethod")

\* verifier.rs verify_tx_method
verify_tx_method(user_method, methods) ==
    LET t == trim(user_method)
        Matches(method) == to_lowercase(method) = to_lowercase(t)
        index == Position(methods, Matches)
    IN IF t = <<>> THEN Verdict(t, "Nothing", "none")
       ELSE IF index # -1 THEN Verdict(methods[index + 1], "Accepted", "none")
       ELSE Verdict(get_best_match(t, methods), "NotAccepted", "InvalidTxMethod")

\* step_tx_method that stops at both ends of the method list
step_tx_method_clamped(user_method, step, methods) ==
    LET v == verify_tx_method(user_method, methods)
        Same(e) == e = v.buf
        current_method_index == Position(methods, Same)
        n == Len(methods)
        next_method_index == IF step = "StepUp"
                             THEN (IF current_method_index = n - 1 THEN current_method_index
                                   ELSE current_method_index + 1)
                             ELSE IF current_method_index = 0 THEN 0
                             ELSE current_method_index - 1
    IN IF v.out = "Accepted"
       THEN IF current_method_index = -1 THEN Stepped(v.buf, "Panic", "unwrap")
            ELSE Stepped(methods[next_method_index + 1], "Ok", "none")
       ELSE IF v.out = "NotAccepted" THEN Stepped(v.buf, "Err", "InvalidTxMethod")
       ELSE IF n = 0 THEN Stepped(v.buf, "Panic", "index")
       ELSE Stepped(methods[1], "Ok", "none")

\* stepper.rs step_tx_method
step_tx_method(user_method, step, methods) ==
    LET v == verify_tx_method(user_method, methods)
        Same(e) == e = v.buf
        current_method_index == Position(methods, Same)
        n == Len(methods)
        next_method_index == IF step = "StepUp" THEN (current_method_index + 1) % n
                             ELSE IF current_method_index = 0 THEN n - 1
                             ELSE (current_method_index - 1) % n
    IN IF v.out = "Accepted"
       THEN IF current_method_index = -1 THEN Stepped(v.buf, "Panic", "unwrap")
            ELSE Stepped(methods[next_method_index + 1], "Ok", "none")
       ELSE IF v.out = "NotAccepted" THEN Stepped(v.buf, "Err", "InvalidTxMethod")
       ELSE IF n = 0 THEN Stepped(v.buf, "Panic", "index")
       ELSE Stepped(methods[1], "Ok", "none")

----------------------------------------------------------------------------
(* Numbers in text                                                         *)

DigitSeq == <<"0", "1", "2", "3", "4", "5", "6", "7", "8", "9">>

DigitVal(c) == (CHOOSE i \in DOMAIN DigitSeq : DigitSeq[i] = c) - 1

DigitChar(n) == DigitSeq[n + 1]

AllDigits(s) == \A i \in DOMAIN s : s[i] \in Digits

RECURSIVE StripZeros(_)
\* the significant digits of a digit string
StripZeros(s) == IF s # <<>> /\ Head(s) = "0" THEN StripZeros(Tail(s)) ELSE s

RECURSIVE NatOf(_, _)
NatOf(s, acc) == IF s = <<>> THEN acc ELSE NatOf(Tail(s), acc * 10 + DigitVal(Head(s)))

\* the number a digit string denotes
ToNat(s) == NatOf(s, 0)

RECURSIVE FormatNat(_)
\* Display of an unsigned integer
FormatNat(n) == IF n < 10 THEN <<DigitChar(n)>> ELSE Append(FormatNat(n \div 10), DigitChar(n % 10))

RECURSIVE LexLeq(_, _)
\* a <= b for digit strings of one length
LexLeq(a, b) ==
    IF a = <<>> THEN TRUE
    ELSE IF Head(a) # Head(b) THEN DigitVal(Head(a)) < DigitVal(Head(b))
    ELSE LexLeq(Tail(a), Tail(b))

\* u32::MAX, 4294967295
U32MaxDigits == <<"4", "2", "9", "4", "9", "6", "7", "2", "9", "5">>

\* a value standing for every u32 too large for the arithmetic of the model;
\* the code only compares such a value with 9, 12, 31, 2022 and 2037
HugeU32 == 999999999

\* str::parse::<u32>: ok is FALSE for Err (empty, a non-digit, or more than u32::MAX)
ParseU32(s) ==
    LET sig == StripZeros(s)
    IN IF s = <<>> \/ ~AllDigits(s) THEN [ok |-> FALSE, val |-> 0]
       ELSE IF Len(sig) > Len(U32MaxDigits) THEN [ok |-> FALSE, val |-> 0]
       ELSE IF Len(sig) = Len(U32MaxDigits)
            THEN [ok |-> LexLeq(sig, U32MaxDigits), val |-> HugeU32]
       ELSE [ok |-> TRUE, val |-> ToNat(sig)]

----------------------------------------------------------------------------
(* Date                                                                    *)

Dash == <<"-">>

FloorDate == <<"2", "0", "2", "2", "-", "0", "1", "-", "0", "1">>
CeilingDate == <<"2", "0", "3", "7", "-", "1", "2", "-", "3", "1">>

Y2022 == <<"2", "0", "2", "2">>
Y2037 == <<"2", "0", "3", "7">>

MinYear == 2022
MaxYear == 2037

IsLeap(y) == (y % 4 = 0 /\ y % 100 # 0) \/ y % 400 = 0

\* days of month m of year y (chrono::NaiveDate)
DaysInMonth(y, m) ==
    IF m = 2 THEN (IF IsLeap(y) THEN 29 ELSE 28)
    ELSE IF m \in {4, 6, 9, 11} THEN 30
    ELSE 31

\* NaiveDate::parse_from_str(.., "%Y-%m-%d").is_ok() for a 4-2-2 digit text
DateExists(y, m, d) == m \in 1..12 /\ d \in 1..DaysInMonth(y, m)

DateKeepChar(c) == is_numeric(c) \/ c = "-"

\* format!("{}-{}-{}", a, b, c)
Dashed(a, b, c) == a \o Dash \o b \o Dash \o c

\* verify_date that looks at the length of the day before the length of the month
verify_date_day_first(user_date) ==
    IF user_date = <<>> THEN Verdict(user_date, "Nothing", "none")
    ELSE
    LET filtered == SelectSeq(user_date, DateKeepChar)
        splitted_date == Split(filtered, "-")
    IN IF Len(splitted_date) # 3 THEN Verdict(FloorDate, "NotAccepted", "InvalidDate")
       ELSE
       LET ys == splitted_date[1]
           ms == splitted_date[2]
           ds == splitted_date[3]
           int_year == ParseU32(ys)
           int_month == ParseU32(ms)
           int_day == ParseU32(ds)
       IN IF ~int_year.ok \/ ~int_month.ok \/ ~int_day.ok
          THEN Verdict(filtered, "NotAccepted", "ParsingError")
          ELSE IF Len(ys) # 4
          THEN Verdict(IF Len(ys) < 4 THEN Dashed(Y2022, ms, ds)
                       ELSE Dashed(SubSeq(ys, 1, 4), ms, ds),
                       "NotAccepted", "InvalidYear")
          ELSE IF Len(ds) # 2
          THEN Verdict(IF int_day.val < 10 THEN Dashed(ys, ms, <<"0">> \o FormatNat(int_day.val))
                       ELSE IF int_day.val > 31 THEN Dashed(ys, ms, <<"3", "1">>)
                       ELSE filtered,
                       "NotAccepted", "InvalidDay")
          ELSE IF Len(ms) # 2
          THEN Verdict(IF int_month.val < 10 THEN Dashed(ys, <<"0">> \o FormatNat(int_month.val), ds)
                       ELSE IF int_month.val > 12 THEN Dashed(ys, <<"1", "2">>, ds)
                       ELSE filtered,
                       "NotAccepted", "InvalidMonth")
          ELSE IF ~(int_year.val \in MinYear..MaxYear)
          THEN Verdict(IF int_year.val < MinYear THEN Dashed(Y2022, ms, ds)
                       ELSE Dashed(Y2037, ms, ds),
                       "NotAccepted", "YearTooBig")
          ELSE IF ~(int_month.val \in 1..12)
          THEN Verdict(IF int_month.val < 1 THEN Dashed(ys, <<"0", "1">>, ds)
                       ELSE Dashed(ys, <<"1", "2">>, ds),
                       "NotAccepted", "MonthTooBig")
          ELSE IF ~(int_day.val \in 1..31)
          THEN Verdict(IF int_day.val < 1 THEN Dashed(ys, ms, <<"0", "1">>)
                       ELSE Dashed(ys, ms, <<"3", "1">>),
                       "NotAccepted", "DayTooBig")
          ELSE IF ~DateExists(int_year.val, int_month.val, int_day.val)
          THEN Verdict(filtered, "NotAccepted", "NonExistingDate")
          ELSE Verdict(filtered, "Accepted", "none")

\* verifier.rs verify_date
verify_date(user_date) ==
    IF user_date = <<>> THEN Verdict(user_date, "Nothing", "none")
    ELSE
    LET filtered == SelectSeq(user_date, DateKeepChar)
        splitted_date == Split(filtered, "-")
    IN IF Len(splitted_date) # 3 THEN Verdict(FloorDate, "NotAccepted", "InvalidDate")
       ELSE
       LET ys == splitted_date[1]
           ms == splitted_date[2]
           ds == splitted_date[3]
           int_year == ParseU32(ys)
           int_month == ParseU32(ms)
           int_day == ParseU32(ds)
       IN IF ~int_year.ok \/ ~int_month.ok \/ ~int_day.ok
          THEN Verdict(filtered, "NotAccepted", "ParsingError")
          ELSE IF Len(ys) # 4
          THEN Verdict(IF Len(ys) < 4 THEN Dashed(Y2022, ms, ds)
                       ELSE Dashed(SubSeq(ys, 1, 4), ms, ds),
                       "NotAccepted", "InvalidYear")
          ELSE IF Len(ms) # 2
          THEN Verdict(IF int_month.val < 10 THEN Dashed(ys, <<"0">> \o FormatNat(int_month.val), ds)
                       ELSE IF int_month.val > 12 THEN Dashed(ys, <<"1", "2">>, ds)
                       ELSE filtered,
                       "NotAccepted", "InvalidMonth")
          ELSE IF Len(ds) # 2
          THEN Verdict(IF int_day.val < 10 THEN Dashed(ys, ms, <<"0">> \o FormatNat(int_day.val))
                       ELSE IF int_day.val > 31 THEN Dashed(ys, ms, <<"3", "1">>)
                       ELSE filtered,
                       "NotAccepted", "InvalidDay")
          ELSE IF ~(int_year.val \in MinYear..MaxYear)
          THEN Verdict(IF int_year.val < MinYear THEN Dashed(Y2022, ms, ds)
                       ELSE Dashed(Y2037, ms, ds),
                       "NotAccepted", "YearTooBig")
          ELSE IF ~(int_month.val \in 1..12)
          THEN Verdict(IF int_month.val < 1 THEN Dashed(ys, <<"0", "1">>, ds)
                       ELSE Dashed(ys, <<"1", "2">>, ds),
                       "NotAccepted", "MonthTooBig")
          ELSE IF ~(int_day.val \in 1..31)
          THEN Verdict(IF int_day.val < 1 THEN Dashed(ys, ms, <<"0", "1">>)
                       ELSE Dashed(ys, ms, <<"3", "1">>),
                       "NotAccepted", "DayTooBig")
          ELSE IF ~DateExists(int_year.val, int_month.val, int_day.val)
          THEN Verdict(filtered, "NotAccepted", "NonExistingDate")
          ELSE Verdict(filtered, "Accepted", "none")

\* a calendar date, as chrono::NaiveDate holds it
Date(y, m, d) == [y |-> y, m |-> m, d |-> d]

\* NaiveDate::parse_from_str(user_date, "%Y-%m-%d").unwrap() on an Accepted buffer
ParseDate(s) ==
    LET p == Split(s, "-") IN Date(ToNat(p[1]), ToNat(p[2]), ToNat(p[3]))

\* NextDay on a calendar without leap days
NextDayCommonYear(t) ==
    IF t.d < DaysInMonth(2023, t.m) THEN Date(t.y, t.m, t.d + 1)
    ELSE IF t.m < 12 THEN Date(t.y, t.m + 1, 1)
    ELSE Date(t.y + 1, 1, 1)

\* current_date += Duration::days(1)
NextDay(t) ==
    IF t.d < DaysInMonth(t.y, t.m) THEN Date(t.y, t.m, t.d + 1)
    ELSE IF t.m < 12 THEN Date(t.y, t.m + 1, 1)
    ELSE Date(t.y + 1, 1, 1)

\* current_date -= Duration::days(1)
PrevDay(t) ==
    IF t.d > 1 THEN Date(t.y, t.m, t.d - 1)
    ELSE IF t.m > 1 THEN Date(t.y, t.m - 1, DaysInMonth(t.y, t.m - 1))
    ELSE Date(t.y - 1, 12, 31)

Pad2(n) == IF n < 10 THEN <<"0">> \o FormatNat(n) ELSE FormatNat(n)

\* NaiveDate::to_string: YYYY-MM-DD
DateToString(t) == Dashed(FormatNat(t.y), Pad2(t.m), Pad2(t.d))

\* step_date without the comparison with the first and the last date
step_date_unbounded(user_date, step) ==
    LET v == verify_date(user_date)
        current_date == ParseDate(v.buf)
        stepped == IF step = "StepUp" THEN NextDay(current_date) ELSE PrevDay(current_date)
    IN IF v.out = "Accepted" THEN Stepped(DateToString(stepped), "Ok", "none")
       ELSE IF v.out = "NotAccepted" THEN Stepped(v.buf, "Err", "InvalidDate")
       ELSE Stepped(FloorDate, "Ok", "none")

\* step_date that starts a rejected buffer over from the first date
step_date_resetting(user_date, step) ==
    LET v == verify_date(user_date)
        current_date == ParseDate(v.buf)
        stepped == IF step = "StepUp"
                   THEN (IF current_date # ParseDate(CeilingDate) THEN NextDay(current_date)
                         ELSE current_date)
                   ELSE (IF current_date # ParseDate(FloorDate) THEN PrevDay(current_date)
                         ELSE current_date)
    IN IF v.out = "Accepted" THEN Stepped(DateToString(stepped), "Ok", "none")
       ELSE Stepped(FloorDate, "Ok", "none")

\* stepper.rs step_date
step_date(user_date, step) ==
    LET v == verify_date(user_date)
        current_date == ParseDate(v.buf)
        stepped == IF step = "StepUp"
                   THEN (IF current_date # ParseDate(CeilingDate) THEN NextDay(current_date)
                         ELSE current_date)
                   ELSE (IF current_date # ParseDate(FloorDate) THEN PrevDay(current_date)
                         ELSE current_date)
    IN IF v.out = "Accepted" THEN Stepped(DateToString(stepped), "Ok", "none")
       ELSE IF v.out = "NotAccepted" THEN Stepped(v.buf, "Err", "InvalidDate")
       ELSE Stepped(FloorDate, "Ok", "none")

----------------------------------------------------------------------------
(* Floating-point values in text                                           *)
(*                                                                         *)
(* An f64 is held exactly: k is "fin" for the fraction n/d (d > 0), or     *)
(* "inf", "ninf", "nan".  The amounts the model computes with are short    *)
(* decimals, which f64 arithmetic followed by {:.2} formatting renders as  *)
(* exact arithmetic does, except where the exact result lies half-way      *)
(* between two hundredths: there the binary value decides, and the model   *)
(* leaves the direction open (tie).                                        *)

F64(k, n, d) == [k |-> k, n |-> n, d |-> d]

Dot == <<".">>

IsDot(c) == c = "."

RECURSIVE Pow10(_)
Pow10(e) == IF e = 0 THEN 1 ELSE 10 * Pow10(e - 1)

\* the text after an optional sign
Unsigned(s) == IF s # <<>> /\ s[1] \in {"+", "-"} THEN Tail(s) ELSE s

\* digits with at most one dot and at least one digit
IsDecimal(s) ==
    /\ \A i \in DOMAIN s : s[i] \in Digits \/ s[i] = "."
    /\ Len(SelectSeq(s, IsDot)) <= 1
    /\ \E i \in DOMAIN s : s[i] \in Digits

IsInfText(s) == to_lowercase(s) \in {<<"i", "n", "f">>, <<"i", "n", "f", "i", "n", "i", "t", "y">>}

IsNanText(s) == to_lowercase(s) = <<"n", "a", "n">>

\* str::parse::<f64>().is_ok()
F64Ok(s) == LET b == Unsigned(s) IN IsDecimal(b) \/ IsInfText(b) \/ IsNanText(b)

\* the parsed value is +0.0 or -0.0
F64IsZero(s) == LET b == Unsigned(s) IN IsDecimal(b) /\ \A i \in DOMAIN b : b[i] \in {"0", "."}

\* the parsed value carries a minus sign
F64IsNegative(s) == s # <<>> /\ s[1] = "-"

\* str::parse::<f64>().unwrap()
ParseF64(s) ==
    LET b == Unsigned(s)
        parts == Split(b, ".")
        frac == IF Len(parts) > 1 THEN parts[2] ELSE <<>>
        mag == ToNat(parts[1] \o frac)
    IN IF IsInfText(b) THEN F64(IF F64IsNegative(s) THEN "ninf" ELSE "inf", 0, 1)
       ELSE IF IsNanText(b) THEN F64("nan", 0, 1)
       ELSE F64("fin", IF F64IsNegative(s) THEN 0 - mag ELSE mag, Pow10(Len(frac)))

F64Neg(x) ==
    IF x.k = "inf" THEN F64("ninf", 0, 1)
    ELSE IF x.k = "ninf" THEN F64("inf", 0, 1)
    ELSE F64(x.k, 0 - x.n, x.d)

F64Sign(x) == IF x.k = "inf" THEN 1 ELSE IF x.k = "ninf" THEN -1
              ELSE IF x.n > 0 THEN 1 ELSE IF x.n < 0 THEN -1 ELSE 0

F64Infinite(x) == x.k \in {"inf", "ninf"}

\* first_num * last_num
F64Mul(x, y) ==
    IF x.k = "nan" \/ y.k = "nan" THEN F64("nan", 0, 1)
    ELSE IF F64Infinite(x) \/ F64Infinite(y)
         THEN (IF F64Sign(x) * F64Sign(y) = 0 THEN F64("nan", 0, 1)
               ELSE IF F64Sign(x) * F64Sign(y) > 0 THEN F64("inf", 0, 1)
               ELSE F64("ninf", 0, 1))
    ELSE F64("fin", x.n * y.n, x.d * y.d)

\* first_num + last_num
F64Add(x, y) ==
    IF x.k = "nan" \/ y.k = "nan" THEN F64("nan", 0, 1)
    ELSE IF F64Infinite(x) /\ F64Infinite(y) THEN (IF x.k = y.k THEN x ELSE F64("nan", 0, 1))
    ELSE IF F64Infinite(x) THEN x
    ELSE IF F64Infinite(y) THEN y
    ELSE F64("fin", x.n * y.d + y.n * x.d, x.d * y.d)

\* first_num - last_num
F64Sub(x, y) == F64Add(x, F64Neg(y))

\* first_num / last_num (operands of the evaluation carry no sign)
F64Div(x, y) ==
    IF x.k = "nan" \/ y.k = "nan" THEN F64("nan", 0, 1)
    ELSE IF F64Infinite(x) THEN (IF F64Infinite(y) THEN F64("nan", 0, 1) ELSE x)
    ELSE IF F64Infinite(y) THEN F64("fin", 0, 1)
    ELSE IF y.n = 0 THEN (IF x.n = 0 THEN F64("nan", 0, 1) ELSE F64("inf", 0, 1))
    ELSE F64("fin", x.n * y.d, x.d * y.n)

Abs(n) == IF n < 0 THEN 0 - n ELSE n

\* hundredths nearest to |n/d|; tie decides an exact half
RoundCents(n, d, tie) ==
    LET q == (Abs(n) * 100) \div d
        r == (Abs(n) * 100) % d
    IN IF 2 * r > d \/ (2 * r = d /\ tie) THEN q + 1 ELSE q

\* format!("{:.2}", x)
FormatF64(x, tie) ==
    IF x.k = "inf" THEN <<"i", "n", "f">>
    ELSE IF x.k = "ninf" THEN <<"-", "i", "n", "f">>
    ELSE IF x.k = "nan" THEN <<"N", "a", "N">>
    ELSE LET c == RoundCents(x.n, x.d, tie)
         IN (IF x.n < 0 THEN <<"-">> ELSE <<>>)
            \o FormatNat(c \div 100) \o Dot \o Pad2(c % 100)

----------------------------------------------------------------------------
(* Amount                                                                  *)

\* verifier.rs: let calc_symbols = vec!['*', '/', '+', '-']
calc_symbols == <<"*", "/", "+", "-">>

IsCalcSymbol(c) == Contains(calc_symbols, c)

AmountKeepChar(c) == is_numeric(c) \/ c = "." \/ IsCalcSymbol(c)

\* str::find(char): 0-based index of the first occurrence, -1 for None
find(s, c) ==
    IF \E i \in DOMAIN s : s[i] = c
    THEN (CHOOSE i \in DOMAIN s : s[i] = c /\ \A j \in 1..(i - 1) : s[j] # c) - 1
    ELSE -1

RECURSIVE replace(_, _, _)
\* str::replace(pat, rep): every non-overlapping occurrence, left to right (pat is never empty)
replace(s, pat, rep) ==
    IF Len(s) < Len(pat) THEN s
    ELSE IF SubSeq(s, 1, Len(pat)) = pat
         THEN rep \o replace(SubSeq(s, Len(pat) + 1, Len(s)), pat, rep)
    ELSE <<Head(s)>> \o replace(Tail(s), pat, rep)

RECURSIVE TakeOperand(_)
\* the characters up to the next calc symbol
TakeOperand(s) ==
    IF s = <<>> \/ IsCalcSymbol(Head(s)) THEN <<>> ELSE <<Head(s)>> \o TakeOperand(Tail(s))

RECURSIVE TakeOperandBack(_)
\* the characters back to the previous calc symbol
TakeOperandBack(s) ==
    IF s = <<>> \/ IsCalcSymbol(s[Len(s)]) THEN <<>>
    ELSE Append(TakeOperandBack(SubSeq(s, 1, Len(s) - 1)), s[Len(s)])

\* working_value.chars().skip(location + 1), up to a calc symbol
last_value(working_value, location) ==
    TakeOperand(SubSeq(working_value, location + 2, Len(working_value)))

\* working_value.chars().rev().skip(len - location), up to a calc symbol, un-reversed
first_value(working_value, location) ==
    TakeOperandBack(SubSeq(working_value, 1, location))

\* match *symbol { '*' => .., '/' => .., '+' => .., '-' => .. }
Calculate(symbol, first_num, last_num) ==
    IF symbol = "*" THEN F64Mul(first_num, last_num)
    ELSE IF symbol = "/" THEN F64Div(first_num, last_num)
    ELSE IF symbol = "+" THEN F64Add(first_num, last_num)
    ELSE F64Sub(first_num, last_num)

\* SelectedSymbol by position: the leftmost calc symbol of working_value
SelectedSymbolLeftmost(working_value) ==
    IF \E i \in DOMAIN working_value : IsCalcSymbol(working_value[i])
    THEN working_value[CHOOSE i \in DOMAIN working_value :
             /\ IsCalcSymbol(working_value[i])
             /\ \A j \in 1..(i - 1) : ~IsCalcSymbol(working_value[j])]
    ELSE ""

\* for symbol in &calc_symbols: the first symbol of the list that working_value holds, "" if none
SelectedSymbol(working_value) ==
    IF \E i \in DOMAIN calc_symbols : find(working_value, calc_symbols[i]) # -1
    THEN calc_symbols[CHOOSE i \in DOMAIN calc_symbols :
             /\ find(working_value, calc_symbols[i]) # -1
             /\ \A j \in 1..(i - 1) : find(working_value, calc_symbols[j]) = -1]
    ELSE ""

\* EvalOperands with a missing left operand read as zero
EvalOperandsFromZero(working_value, symbol, first, last, tie) ==
    IF first = <<>> /\ last # <<>> /\ F64Ok(last)
    THEN [w |-> replace(working_value, <<symbol>> \o last,
                        FormatF64(Calculate(symbol, F64("fin", 0, 1), ParseF64(last)), tie)),
          err |-> FALSE]
    ELSE IF first = <<>> THEN [w |-> replace(working_value, <<symbol>> \o last, last), err |-> FALSE]
    ELSE IF last = <<>> THEN [w |-> replace(working_value, first \o <<symbol>>, first), err |-> FALSE]
    ELSE IF ~F64Ok(first) \/ ~F64Ok(last) THEN [w |-> working_value, err |-> TRUE]
    ELSE [w |-> replace(working_value, first \o <<symbol>> \o last,
                        FormatF64(Calculate(symbol, ParseF64(first), ParseF64(last)), tie)),
          err |-> FALSE]

\* the replacement of the matched operands of symbol; err is the early return with a parsing error
EvalOperands(working_value, symbol, first, last, tie) ==
    IF first = <<>> THEN [w |-> replace(working_value, <<symbol>> \o last, last), err |-> FALSE]
    ELSE IF last = <<>> THEN [w |-> replace(working_value, first \o <<symbol>>, first), err |-> FALSE]
    ELSE IF ~F64Ok(first) \/ ~F64Ok(last) THEN [w |-> working_value, err |-> TRUE]
    ELSE [w |-> replace(working_value, first \o <<symbol>> \o last,
                        FormatF64(Calculate(symbol, ParseF64(first), ParseF64(last)), tie)),
          err |-> FALSE]

\* if let Some(location) = working_value.find(*symbol) { .. break; }
EvalAt(working_value, symbol, location, tie) ==
    EvalOperands(working_value, symbol,
                 first_value(working_value, location), last_value(working_value, location), tie)

\* one iteration of `for _i in 0..count`
EvalSymbol(working_value, symbol, tie) ==
    IF symbol = "" THEN [w |-> working_value, err |-> FALSE]
    ELSE EvalAt(working_value, symbol, find(working_value, symbol), tie)

EvalPass(working_value, tie) == EvalSymbol(working_value, SelectedSymbol(working_value), tie)

RECURSIVE EvalLoop(_, _, _, _)
\* for _i in 0..count { .. }; trace holds working_value after each completed pass
EvalLoop(working_value, count, tie, trace) ==
    IF count = 0 THEN [w |-> working_value, err |-> FALSE, work |-> trace]
    ELSE LET p == EvalPass(working_value, tie)
         IN IF p.err THEN [w |-> working_value, err |-> TRUE, work |-> trace]
            ELSE EvalLoop(p.w, count - 1, tie, Append(trace, p.w))

AmountVerdict(b, o, w, t) == [buf |-> b, out |-> o, why |-> w, work |-> t]

\* "if dot is present but nothing after that, add 2 zero; if no dot, add dot + 2 zero"
AddDecimals(user_amount) ==
    IF Contains(user_amount, ".")
    THEN (IF Split(user_amount, ".")[2] = <<>> THEN user_amount \o <<"0", "0">> ELSE user_amount)
    ELSE user_amount \o <<".", "0", "0">>

\* "checks if there is 2 number after the dot else add zero/s"
TwoDecimals(user_amount) ==
    LET splitted == Split(user_amount, ".")
    IN IF Len(splitted[2]) < 2 THEN user_amount \o <<"0">>
       ELSE IF Len(splitted[2]) > 2 THEN splitted[1] \o Dot \o SubSeq(splitted[2], 1, 2)
       ELSE user_amount

\* verifier.rs: splitted_amount[0].len() > 10
MaxIntegerChars == 10

\* "limit max character to 10"
LimitInteger(user_amount) ==
    LET splitted_amount == Split(user_amount, ".")
    IN IF Len(splitted_amount[1]) > MaxIntegerChars
       THEN SubSeq(splitted_amount[1], 1, MaxIntegerChars) \o Dot \o splitted_amount[2]
       ELSE user_amount

\* format!("{:.2}", float_amount - float_amount * 2.0)
Reflect(user_amount, tie) ==
    IF F64IsZero(user_amount) THEN <<"0", ".", "0", "0">>
    ELSE FormatF64(F64Neg(ParseF64(user_amount)), tie)

\* verifier.rs verify_amount, from the parse of the evaluated text on
AmountOfDecimals(decimals, trace, tie) ==
    IF ~F64Ok(decimals) THEN AmountVerdict(decimals, "NotAccepted", "ParsingError", trace)
    ELSE IF F64IsZero(decimals) \/ F64IsNegative(decimals)
         THEN AmountVerdict(Reflect(decimals, tie), "NotAccepted", "AmountBelowZero", trace)
    ELSE AmountVerdict(LimitInteger(TwoDecimals(decimals)), "Accepted", "none", trace)

\* verifier.rs verify_amount, after the evaluation loop
AmountOfLoop(filtered, loop, tie) ==
    IF loop.err THEN AmountVerdict(filtered, "NotAccepted", "ParsingError", loop.work)
    ELSE AmountOfDecimals(AddDecimals(loop.w), loop.work, tie)

\* verifier.rs verify_amount, after the character filter
AmountOfFiltered(filtered, tie) ==
    IF filtered = <<>> THEN AmountVerdict(filtered, "NotAccepted", "ParsingError", <<>>)
    ELSE AmountOfLoop(filtered,
                      EvalLoop(filtered, Len(SelectSeq(filtered, IsCalcSymbol)), tie, <<>>), tie)

\* verifier.rs verify_amount
verify_amount(user_amount, tie) ==
    IF user_amount = <<>> THEN AmountVerdict(user_amount, "Nothing", "none", <<>>)
    ELSE AmountOfFiltered(SelectSeq(user_amount, AmountKeepChar), tie)

\* the largest integer part a StepUp may start from: 9999999999.99 >= current_amount + 1.0
LastStepUpInteger == <<"9", "9", "9", "9", "9", "9", "9", "9", "9", "8">>

RECURSIVE IncDigits(_)
\* digit string + 1
IncDigits(s) ==
    IF s = <<>> THEN <<"1">>
    ELSE IF s[Len(s)] = "9" THEN Append(IncDigits(SubSeq(s, 1, Len(s) - 1)), "0")
    ELSE Append(SubSeq(s, 1, Len(s) - 1), DigitChar(DigitVal(s[Len(s)]) + 1))

RECURSIVE DecDigits(_)
\* digit string - 1, for a string that is not zero
DecDigits(s) ==
    IF s[Len(s)] = "0" THEN Append(DecDigits(SubSeq(s, 1, Len(s) - 1)), "9")
    ELSE Append(SubSeq(s, 1, Len(s) - 1), DigitChar(DigitVal(s[Len(s)]) - 1))

\* MayStepUp without the ceiling
MayStepUpAlways(int) == TRUE

\* 9999999999.99 >= current_amount + 1.0, for the integer part without leading zeros
MayStepUp(int) ==
    \/ Len(int) < Len(LastStepUpInteger)
    \/ Len(int) = Len(LastStepUpInteger) /\ LexLeq(int, LastStepUpInteger)

\* (current_amount - 1.0) >= 0.00
MayStepDown(int) == int # <<>>

\* current_amount += 1.0 or -= 1.0 under its guard, on the integer part
MoveInteger(int, step) ==
    IF step = "StepUp" THEN (IF MayStepUp(int) THEN IncDigits(int) ELSE int)
    ELSE (IF MayStepDown(int) THEN StripZeros(DecDigits(int)) ELSE int)

\* FormatAmount with one decimal
FormatAmountShort(int, frac) == (IF int = <<>> THEN <<"0">> ELSE int) \o Dot \o <<frac[1]>>

\* format!("{current_amount:.2}")
FormatAmount(int, frac) == (IF int = <<>> THEN <<"0">> ELSE int) \o Dot \o frac

StepParts(parts, step) == FormatAmount(MoveInteger(StripZeros(parts[1]), step), parts[2])

\* stepper.rs step_amount, Accepted arm: user_amount holds one dot and two decimals
StepAccepted(user_amount, step) == StepParts(Split(user_amount, "."), step)

OneAmount == <<"1", ".", "0", "0">>

\* StepAmountOn that sets "1.00" after a below-zero rejection for both directions
StepAmountOnSnapping(v, step) ==
    IF v.out = "Accepted" THEN Stepped(StepAccepted(v.buf, step), "Ok", "none")
    ELSE IF v.out = "NotAccepted"
         THEN (IF v.why = "AmountBelowZero"
               THEN Stepped(OneAmount, "Ok", "none")
               ELSE Stepped(v.buf, "Err", "InvalidAmount"))
    ELSE Stepped(OneAmount, "Ok", "none")

\* stepper.rs step_amount, the match on verify_status
StepAmountOn(v, step) ==
    IF v.out = "Accepted" THEN Stepped(StepAccepted(v.buf, step), "Ok", "none")
    ELSE IF v.out = "NotAccepted"
         THEN (IF v.why = "AmountBelowZero"
               THEN Stepped(IF step = "StepUp" THEN OneAmount ELSE v.buf, "Ok", "none")
               ELSE Stepped(v.buf, "Err", "InvalidAmount"))
    ELSE Stepped(OneAmount, "Ok", "none")

\* stepper.rs step_amount
step_amount(user_amount, step, tie) == StepAmountOn(verify_amount(user_amount, tie), step)

----------------------------------------------------------------------------
(* Inputs                                                                  *)

\* the longest buffer of each field whose every content is tried
MaxAmountLen == 3
MaxTextLen == 3

\* the most step_amount calls made on one buffer
MaxAmountSteps == 3

\* the longest amount buffer a call is made on (a rejected "1.." grows by "00" on every call)
MaxAmountBuffer == 16

\* every text over an alphabet, up to a length
Texts(alphabet, n) == UNION {[1..k -> alphabet] : k \in 0..n}

AmountAlphabet == {"0", "1", "3", ".", "+", "-", "*", "/", "x"}

AmountExamples ==
    {<<"9", "9", "9", "9", "9", "9", "9", "9", "9", "9", ".", "0", "0">>,
     <<"1", "-", "3">>,
     <<"2", "+", "3", "*", "4">>,
     <<"1", "0", "-", "3", "+", "2">>,
     <<"-", "5">>,
     <<"9", "9", "9", "9", "9", "9", "9", "9", "9", "9", ".", "9", "9">>,
     <<"9", "9", "9", "9", "9", "9", "9", "9", "9", "8", ".", "9", "9">>,
     <<"0", ".", "0", "0">>,
     <<"1", "2", "3", "4", "5", "6", "7", "8", "9", "0", "1">>,
     <<"0", ".", "0", "0", "1">>,
     <<"1", "-", "3", "-", "1">>,
     <<"2", "*", "2", "+", "1", "2", "*", "2">>,
     <<".", "0", "1", "/", "2">>,
     <<"1", "/", "0", "+", "1">>,
     <<"1", ".", "0", "0">>,
     <<"0", ".", "5", "0">>,
     <<"5", ".", ".">>,
     <<"1", " ", "0", "0", "0">>}

AmountInputs == Texts(AmountAlphabet, MaxAmountLen) \cup AmountExamples

YearTexts == {<<>>,
              <<"1">>,
              <<"2", "0", "2", "1">>,
              <<"2", "0", "2", "2">>,
              <<"2", "0", "2", "4">>,
              <<"2", "0", "3", "7">>,
              <<"2", "0", "3", "8">>,
              <<"2", "0", "2", "2", "1">>,
              <<"0", "0", "0", "0">>}
MonthTexts == {<<>>,
               <<"1">>,
               <<"0", "1">>,
               <<"0", "2">>,
               <<"1", "2">>,
               <<"1", "3">>,
               <<"0", "0">>,
               <<"0", "1", "0">>,
               <<"4">>,
               <<"0", "1", "2">>}
DayTexts == {<<>>,
             <<"1">>,
             <<"0", "1">>,
             <<"2", "8">>,
             <<"2", "9">>,
             <<"3", "0">>,
             <<"3", "1">>,
             <<"3", "2">>,
             <<"0", "0">>,
             <<"0", "1", "0">>,
             <<"0", "3", "1">>}

DateExamples ==
    {<<>>,
     <<"x">>,
     <<"2", "0", "2", "2", "-", "0", "1">>,
     <<"2", "0", "2", "2", "-", "0", "1", "-", "0", "1", "-", "0", "1">>,
     <<"2", "0", "2", "2", "/", "0", "1", "/", "0", "1">>,
     <<"2", "0", "2", "2", "-", "0", "1", "-", "0", "1", "x">>,
     <<" ", "2", "0", "3", "7", "-", "1", "2", "-", "3", "1">>,
     <<"1", "-", "1", "-", "4", "2", "9", "4", "9", "6", "7", "2", "9", "6">>,
     <<"2", "0", "2", "2", "-", "4", "2", "9", "4", "9", "6", "7", "2", "9", "5", "-", "0", "1">>,
     <<"2", "0", "2", "3", "-", "1", "2", "-", "3", "1">>,
     <<"2", "0", "2", "4", "-", "0", "3", "-", "0", "1">>}

DateInputs == {Dashed(y, m, d) : y \in YearTexts, m \in MonthTexts, d \in DayTexts} \cup DateExamples

TxTypeAlphabet == {"e", "I", "t", "x", " "}

TxTypeInputs == Texts(TxTypeAlphabet, MaxTextLen) \cup {<<"e", "x", "p">>, Expense, Income, Transfer}

Bank == <<"B", "a", "n", "k">>
Cash == <<"C", "a", "s", "h">>

MethodStores == {<<>>, <<Bank, Cash>>, <<<<"a">>, <<"b">>, <<"c">>>>, <<<<"b">>, <<"B">>>>}

MethodAlphabet == {"a", "B", "c", " "}

MethodInputs == Texts(MethodAlphabet, MaxTextLen) \cup {<<"b", "n", "a", "k">>, <<"b", "a", "n", "k">>, <<" ", "C", "A", "S", "H", " ">>, Bank, Cash}

Food == <<"f", "o", "o", "d">>
Travel == <<"t", "r", "a", "v", "e", "l">>

TagStores == {<<>>, <<Food, Travel>>, <<<<"a">>, <<"b">>, <<"c">>>>, <<<<"b">>, <<"B">>, <<"a">>>>}

TagAlphabet == {"a", "B", "c", ",", " "}

TagInputs == Texts(TagAlphabet, MaxTextLen) \cup {<<"f", "o", "o", "d", ",", " ", "F", "o", "o", "d", ",", " ", "t", "r", "a", "v", "e", "l">>, <<"f", "o", "o", "d", ",", " ", "t", "r", "a", "v", "e", "l">>, <<"f", "o", "o", "d", ",", "x">>, <<"a", ",", " ", "c", ",", " ", "B">>}

AutofillHints == {<<>>, <<"a", "b">>}

StepTypes == {"StepUp", "StepDown"}

----------------------------------------------------------------------------
(* The field under edit and the calls made on it                           *)

Start(f, b, methods, tags, hint) ==
    /\ field = f
    /\ buf = b
    /\ all_tx_methods = methods
    /\ all_tags = tags
    /\ autofill = hint
    /\ op = "none"
    /\ step_type = "none"
    /\ out = "none"
    /\ why = "none"
    /\ old = b
    /\ work = <<>>
    /\ steps = 0

Init ==
    \/ \E b \in DateInputs : Start("Date", b, <<>>, <<>>, <<>>)
    \/ \E b \in AmountInputs : Start("Amount", b, <<>>, <<>>, <<>>)
    \/ \E b \in TxTypeInputs : Start("TxType", b, <<>>, <<>>, <<>>)
    \/ \E b \in MethodInputs, m \in MethodStores : Start("TxMethod", b, m, <<>>, <<>>)
    \/ \E b \in TagInputs, t \in TagStores, h \in AutofillHints : Start("Tags", b, <<>>, t, h)

\* the process is still running: no call has aborted it
Running == out # "Panic"

\* a verify_* call returned r
Verified(r, trace) ==
    /\ buf' = r.buf
    /\ out' = r.out
    /\ why' = r.why
    /\ op' = "verify"
    /\ step_type' = "none"
    /\ old' = buf
    /\ work' = trace
    /\ UNCHANGED <<field, all_tx_methods, all_tags, autofill>>

\* a step_* call in direction step returned r
StepDone(r, step) ==
    /\ buf' = r.buf
    /\ out' = r.out
    /\ why' = r.why
    /\ op' = "step"
    /\ step_type' = step
    /\ old' = buf
    /\ work' = <<>>
    /\ UNCHANGED <<field, all_tx_methods, all_tags, autofill>>

VerifiedAmount(r) == Verified(r, r.work)

VerifyDate ==
    /\ Running /\ field = "Date"
    /\ Verified(verify_date(buf), <<>>)
    /\ UNCHANGED steps

VerifyAmount ==
    /\ Running /\ field = "Amount"
    /\ Len(buf) <= MaxAmountBuffer
    /\ \E tie \in BOOLEAN :
        VerifiedAmount(verify_amount(buf, tie))
    /\ UNCHANGED steps

VerifyTxMethod ==
    /\ Running /\ field = "TxMethod"
    /\ Verified(verify_tx_method(buf, all_tx_methods), <<>>)
    /\ UNCHANGED steps

VerifyTxType ==
    /\ Running /\ field = "TxType"
    /\ Verified(verify_tx_type(buf), <<>>)
    /\ UNCHANGED steps

VerifyTagsForced ==
    /\ Running /\ field = "Tags"
    /\ Verified(verify_tags_forced(buf, all_tags), <<>>)
    /\ UNCHANGED steps

StepDate ==
    /\ Running /\ field = "Date"
    /\ \E step \in StepTypes : StepDone(step_date(buf, step), step)
    /\ UNCHANGED steps

StepAmount ==
    /\ Running /\ field = "Amount"
    /\ steps < MaxAmountSteps
    /\ Len(buf) <= MaxAmountBuffer
    /\ \E step \in StepTypes, tie \in BOOLEAN : StepDone(step_amount(buf, step, tie), step)
    /\ steps' = steps + 1

StepTxMethod ==
    /\ Running /\ field = "TxMethod"
    /\ \E step \in StepTypes : StepDone(step_tx_method(buf, step, all_tx_methods), step)
    /\ UNCHANGED steps

StepTxType ==
    /\ Running /\ field = "TxType"
    /\ \E step \in StepTypes : StepDone(step_tx_type(buf, step), step)
    /\ UNCHANGED steps

StepTags ==
    /\ Running /\ field = "Tags"
    /\ \E step \in StepTypes : StepDone(step_tags(buf, autofill, step, all_tags), step)
    /\ UNCHANGED steps

Next ==
    \/ VerifyDate
    \/ VerifyAmount
    \/ VerifyTxMethod
    \/ VerifyTxType
    \/ VerifyTagsForced
    \/ StepDate
    \/ StepAmount
    \/ StepTxMethod
    \/ StepTxType
    \/ StepTags

Spec == Init /\ [][Next]_vars

----------------------------------------------------------------------------
(* Properties                                                              *)

\* the validator of field f applied to buffer b
VerifyOf(f, b, tie) ==
    IF f = "Date" THEN verify_date(b)
    ELSE IF f = "Amount" THEN verify_amount(b, tie)
    ELSE IF f = "TxMethod" THEN verify_tx_method(b, all_tx_methods)
    ELSE IF f = "TxType" THEN verify_tx_type(b)
    ELSE verify_tags_forced(b, all_tags)

\* C1: when a validate call returns Accepted, validating the resulting buffer again
\* (same store) returns Accepted and leaves the buffer unchanged, for every field kind.
C1_Idempotent ==
    (op = "verify" /\ out = "Accepted") =>
        \A tie \in BOOLEAN :
            /\ VerifyOf(field, buf, tie).out = "Accepted"
            /\ VerifyOf(field, buf, tie).buf = buf

\* C2: every validate or step call returns an outcome or a Result; none aborts the
\* process, whatever the buffer, the direction and the store hold.
C2_NeverAborts == out # "Panic"

T_Minus5 == <<"-", "5">>
T_5_00 == <<"5", ".", "0", "0">>

\* C3 as stated: verify_amount on "-5" returns Rejected(amount below zero) and leaves "5.00".
C3_Original ==
    (field = "Amount" /\ op = "verify" /\ old = T_Minus5) =>
        (out = "NotAccepted" /\ why = "AmountBelowZero" /\ buf = T_5_00)

\* a text that is a minus sign followed by a positive number
IsMinusPositive(s) ==
    /\ s # <<>> /\ s[1] = "-"
    /\ IsDecimal(Tail(s)) /\ ~F64IsZero(Tail(s))

\* hundredths of a number, the further decimals cut off
CentsCut(x) == (x.n * 100) \div x.d

\* hundredths denoted by an amount text with two decimals
Cents(s) == ToNat(Split(s, ".")[1] \o Split(s, ".")[2])

HasTwoDecimals(s) ==
    /\ Len(Split(s, ".")) = 2
    /\ Len(Split(s, ".")[2]) = 2
    /\ AllDigits(Split(s, ".")[1]) /\ AllDigits(Split(s, ".")[2])

T_1Minus3 == <<"1", "-", "3">>
T_2_00 == <<"2", ".", "0", "0">>

\* C3, amended: verify_amount on a minus sign followed by a positive number drops the
\* one-sided minus, returns Accepted and leaves the magnitude with two decimals
\* ("-5" gives "5.00"); the below-zero rejection with the reflected magnitude is what
\* an expression of value <= 0 gets ("1-3" gives "2.00").
C3_MinusDropped ==
    (field = "Amount" /\ op = "verify") =>
        /\ IsMinusPositive(old) =>
              /\ out = "Accepted"
              /\ HasTwoDecimals(buf)
              /\ Cents(buf) = CentsCut(ParseF64(Tail(old)))
        /\ old = T_Minus5 => buf = T_5_00
        /\ old = T_1Minus3 => (out = "NotAccepted" /\ why = "AmountBelowZero" /\ buf = T_2_00)

C3_Witness ==
    field = "Amount" /\ op = "verify" /\ old = T_Minus5 /\ out = "Accepted" /\ buf = T_5_00

T_2Plus3Times4 == <<"2", "+", "3", "*", "4">>
T_2Plus12_00 == <<"2", "+", "1", "2", ".", "0", "0">>
T_14_00 == <<"1", "4", ".", "0", "0">>
T_10Minus3Plus2 == <<"1", "0", "-", "3", "+", "2">>
T_10Minus5_00 == <<"1", "0", "-", "5", ".", "0", "0">>

\* the symbols in the order of their priority, highest first
PriorityOrder == <<"*", "/", "+", "-">>

Count(s, c) == Len(SelectSeq(s, LAMBDA x : x = c))

\* the working string pass i of a verify_amount call on text began with
BeforePass(text, passes, i) ==
    IF i = 1 THEN SelectSeq(text, AmountKeepChar) ELSE passes[i - 1]

\* C4: verify_amount evaluates by symbol priority, not position: a pass leaves every
\* symbol alone as long as a symbol of higher priority (order * / + -) is present, so
\* "2+3*4" becomes "2+12.00" and ends Accepted as "14.00", and '+' goes before '-':
\* "10-3+2" gives "5.00".
C4_SymbolPriority ==
    (field = "Amount" /\ op = "verify") =>
        /\ \A i \in DOMAIN work : \A hi \in 1..4 : \A lo \in (hi + 1)..4 :
              Contains(BeforePass(old, work, i), PriorityOrder[hi]) =>
                  Count(work[i], PriorityOrder[lo])
                      = Count(BeforePass(old, work, i), PriorityOrder[lo])
        /\ old = T_2Plus3Times4 =>
              (work = <<T_2Plus12_00, T_14_00>> /\ buf = T_14_00 /\ out = "Accepted")
        /\ old = T_10Minus3Plus2 =>
              (work = <<T_10Minus5_00, T_5_00>> /\ buf = T_5_00 /\ out = "Accepted")

C4_Witness ==
    field = "Amount" /\ op = "verify" /\ old = T_2Plus3Times4 /\ buf = T_14_00

T_FoodFoodTravel == <<"f", "o", "o", "d", ",", " ", "F", "o", "o", "d", ",", " ", "t", "r", "a", "v", "e", "l">>
T_FoodTravel == <<"f", "o", "o", "d", ",", " ", "t", "r", "a", "v", "e", "l">>

\* C5 as stated: "food, Food, travel" with store ["food", "travel"] becomes
\* "food, travel" and is Accepted.
C5_Original ==
    (field = "Tags" /\ op = "verify" /\ old = T_FoodFoodTravel /\ all_tags = <<Food, Travel>>) =>
        (buf = T_FoodTravel /\ out = "Accepted")

\* C5, amended: "food, Food, travel" with store ["food", "travel"] becomes
\* "food, travel" and is Rejected(non-existing tag): "Food" is a token of its own that
\* the store does not hold.
C5_CaseSensitive ==
    (field = "Tags" /\ op = "verify" /\ old = T_FoodFoodTravel /\ all_tags = <<Food, Travel>>) =>
        (buf = T_FoodTravel /\ out = "NotAccepted" /\ why = "NonExistingTag")

C5_Witness ==
    /\ field = "Tags" /\ op = "verify" /\ old = T_FoodFoodTravel /\ all_tags = <<Food, Travel>>
    /\ buf = T_FoodTravel /\ out = "NotAccepted"

\* the trimmed, non-empty tokens of a tag buffer
Tokens(s) == {trim(Split(s, ",")[i]) : i \in DOMAIN Split(s, ",")} \ {<<>>}

\* where a token first stands in a tag buffer
FirstSeen(s, token) ==
    CHOOSE i \in DOMAIN Split(s, ",") :
        /\ trim(Split(s, ",")[i]) = token
        /\ \A j \in 1..(i - 1) : trim(Split(s, ",")[j]) # token

StoreTags(tags) == {tags[i] : i \in DOMAIN tags}

\* list holds the store-known tokens of s, each once, in first-seen order
IsKnownInOrder(list, s, tags) ==
    /\ {list[i] : i \in DOMAIN list} = Tokens(s) \cap StoreTags(tags)
    /\ \A i, j \in DOMAIN list : i < j => FirstSeen(s, list[i]) < FirstSeen(s, list[j])

\* C6: verify_tags_forced on a non-empty buffer returns Accepted exactly when every
\* trimmed, non-empty token is an exact member of the store tag list, else
\* Rejected(non-existing tag); either way the buffer becomes the ", "-join of the
\* store-known tokens in first-seen order, and the store list stays as it is.
C6_ForcedTags ==
    [][(field' = "Tags" /\ op' = "verify" /\ old' # <<>>) =>
          /\ (out' = "Accepted") = (Tokens(old') \subseteq StoreTags(all_tags))
          /\ out' # "Accepted" => (out' = "NotAccepted" /\ why' = "NonExistingTag")
          /\ \E list \in UNION {[1..k -> Tokens(old')] : k \in 0..Cardinality(Tokens(old'))} :
                /\ IsKnownInOrder(list, old', all_tags)
                /\ buf' = join(list, CommaSpace)
          /\ all_tags' = all_tags]_vars

C6_Witness ==
    /\ field = "Tags" /\ op = "verify" /\ old = <<"a", ",", " ", "c", ",", " ", "B">> /\ all_tags = <<<<"a">>, <<"b">>, <<"c">>>>
    /\ out = "NotAccepted" /\ buf = <<"a", ",", " ", "c">>

\* days from 0001-01-01 to the date, counted from the calendar rules
DaysBeforeMonth == <<0, 31, 59, 90, 120, 151, 181, 212, 243, 273, 304, 334>>

DayNumber(t) ==
    365 * (t.y - 1) + ((t.y - 1) \div 4) - ((t.y - 1) \div 100) + ((t.y - 1) \div 400)
    + DaysBeforeMonth[t.m] + (IF t.m > 2 /\ IsLeap(t.y) THEN 1 ELSE 0) + t.d

\* a text of the form YYYY-MM-DD naming a day of the calendar
IsCalendarText(s) ==
    /\ Len(s) = 10 /\ s[5] = "-" /\ s[8] = "-"
    /\ \A i \in {1, 2, 3, 4, 6, 7, 9, 10} : s[i] \in Digits
    /\ DateExists(ParseDate(s).y, ParseDate(s).m, ParseDate(s).d)

\* C7: step_date is clamped, not wrapped: Decrease on "2022-01-01" and Increase on
\* "2037-12-31" return Ok and leave the buffer as it is; on every other Accepted date
\* the step moves the buffer by exactly one calendar day in the direction asked.
C7_DateClamped ==
    (field = "Date" /\ op = "step" /\ verify_date(old).out = "Accepted") =>
        /\ out = "Ok"
        /\ IsCalendarText(buf)
        /\ IF step_type = "StepDown" /\ verify_date(old).buf = FloorDate THEN buf = FloorDate
           ELSE IF step_type = "StepUp" /\ verify_date(old).buf = CeilingDate THEN buf = CeilingDate
           ELSE DayNumber(ParseDate(buf))
                    = DayNumber(ParseDate(verify_date(old).buf))
                      + (IF step_type = "StepUp" THEN 1 ELSE -1)

C7_Witness ==
    /\ field = "Date" /\ op = "step" /\ step_type = "StepUp"
    /\ old = CeilingDate /\ buf = CeilingDate /\ out = "Ok"

T_Ceiling == <<"9", "9", "9", "9", "9", "9", "9", "9", "9", "9", ".", "9", "9">>
T_BelowCeiling == <<"9", "9", "9", "9", "9", "9", "9", "9", "9", "8", ".", "9", "9">>
T_0_00 == <<"0", ".", "0", "0">>
T_TenNines == <<"9", "9", "9", "9", "9", "9", "9", "9", "9", "9">>

\* the amount text of a number of hundredths
CentsText(c) == FormatNat(c \div 100) \o Dot \o Pad2(c % 100)

\* C8: step_amount is clamped: Increase on "9999999999.99" and Decrease on "0.00"
\* return Ok and leave the buffer as it is; an Increase that would pass 9999999999.99
\* or a Decrease that would pass 0.00 leaves the value as it is, and every other step of
\* an Accepted amount changes the value by exactly 1.00, written with two decimals.
C8_AmountClamped ==
    (field = "Amount" /\ op = "step") =>
        /\ (old = T_Ceiling /\ step_type = "StepUp") => (out = "Ok" /\ buf = old)
        /\ (old = T_0_00 /\ step_type = "StepDown") => (out = "Ok" /\ buf = old)
        /\ (old = T_BelowCeiling /\ step_type = "StepUp") => (out = "Ok" /\ buf = T_Ceiling)
        /\ \E tie \in BOOLEAN :
              LET v == verify_amount(old, tie) IN
              /\ (v.out = "Accepted" /\ step_type = "StepUp"
                     /\ StripZeros(Split(v.buf, ".")[1]) = T_TenNines) =>
                    (out = "Ok" /\ buf = v.buf)
              /\ (v.out = "Accepted" /\ Len(v.buf) <= 9) =>
                    /\ out = "Ok"
                    /\ buf = CentsText(Cents(buf))
                    /\ Cents(buf) = IF step_type = "StepUp" THEN Cents(v.buf) + 100
                                    ELSE IF Cents(v.buf) - 100 < 0 THEN Cents(v.buf)
                                    ELSE Cents(v.buf) - 100

C8_Witness ==
    /\ field = "Amount" /\ op = "step" /\ step_type = "StepUp"
    /\ old = T_Ceiling /\ buf = T_Ceiling /\ out = "Ok"

T_Bnak == <<"b", "n", "a", "k">>

\* C9: verify_tx_method on a buffer not empty after the trim: if a store method equals
\* it ignoring case, the buffer becomes that store entry as the store writes it and the
\* outcome is Accepted; otherwise the buffer becomes the fuzzy match over the store list
\* ("bnak" with ["Bank", "Cash"] becomes "Bank") and the outcome is Rejected(invalid method).
C9_Method ==
    (field = "TxMethod" /\ op = "verify" /\ trim(old) # <<>>) =>
        /\ IF \E i \in DOMAIN all_tx_methods :
                  to_lowercase(all_tx_methods[i]) = to_lowercase(trim(old))
           THEN /\ out = "Accepted"
                /\ Contains(all_tx_methods, buf)
                /\ to_lowercase(buf) = to_lowercase(trim(old))
           ELSE /\ out = "NotAccepted" /\ why = "InvalidTxMethod"
                /\ buf = get_best_match(trim(old), all_tx_methods)
        /\ (old = T_Bnak /\ all_tx_methods = <<Bank, Cash>>) =>
              (buf = Bank /\ out = "NotAccepted" /\ why = "InvalidTxMethod")

C9_Witness ==
    /\ field = "TxMethod" /\ op = "verify" /\ old = T_Bnak /\ all_tx_methods = <<Bank, Cash>>
    /\ buf = Bank /\ out = "NotAccepted"

\* the last comma-segment of a tag buffer, trimmed
LastSegment(s) == trim(Split(s, ",")[Len(Split(s, ","))])

\* the first store tag equal to the token ignoring case: its place in the list, 0 if none
StoreIndex(tags, token) ==
    IF \E i \in DOMAIN tags : to_lowercase(tags[i]) = to_lowercase(token)
    THEN CHOOSE i \in DOMAIN tags :
             /\ to_lowercase(tags[i]) = to_lowercase(token)
             /\ \A j \in 1..(i - 1) : to_lowercase(tags[j]) # to_lowercase(token)
    ELSE 0

T_a == <<"a">>
T_b == <<"b">>
T_c == <<"c">>

\* C10: step_tags on a buffer whose last comma-segment matches, ignoring case, the
\* store tag at index i puts the store tag at index (i+1) mod n there on Increase and
\* the one at (i-1) mod n on Decrease, wrapping at both ends, and returns Ok
\* (store ["a","b","c"]: "a" Increase gives "b", "a" Decrease gives "c", "c" Increase gives "a").
C10_TagCycle ==
    (field = "Tags" /\ op = "step" /\ old # <<>> /\ StoreIndex(all_tags, LastSegment(old)) # 0) =>
        /\ out = "Ok"
        /\ LastSegment(buf) =
              all_tags[IF step_type = "StepUp"
                       THEN (StoreIndex(all_tags, LastSegment(old)) % Len(all_tags)) + 1
                       ELSE ((StoreIndex(all_tags, LastSegment(old)) + Len(all_tags) - 2)
                                 % Len(all_tags)) + 1]
        /\ all_tags = <<T_a, T_b, T_c>> =>
              /\ (old = T_a /\ step_type = "StepUp") => buf = T_b
              /\ (old = T_a /\ step_type = "StepDown") => buf = T_c
              /\ (old = T_c /\ step_type = "StepUp") => buf = T_a

C10_Witness ==
    /\ field = "Tags" /\ op = "step" /\ step_type = "StepDown"
    /\ all_tags = <<T_a, T_b, T_c>> /\ old = T_a /\ buf = T_c /\ out = "Ok"

\* the first character of a text that is not a space, in lower case; "" if there is none
FirstLetter(s) ==
    IF \E i \in DOMAIN s : s[i] # " "
    THEN LowerChar(s[CHOOSE i \in DOMAIN s : s[i] # " " /\ \A j \in 1..(i - 1) : s[j] = " "])
    ELSE ""

T_exp == <<"e", "x", "p">>
T_x == <<"x">>

\* C11: verify_tx_type on a buffer that is not empty once its spaces are removed looks
\* at the first letter ignoring case: e gives "Expense", i gives "Income", t gives
\* "Transfer", each Accepted ("exp" becomes "Expense"); any other first character
\* empties the buffer and the outcome is Rejected(invalid type) ("x" is cleared).
C11_TypeExpansion ==
    (field = "TxType" /\ op = "verify" /\ FirstLetter(old) # "") =>
        /\ FirstLetter(old) = "e" => (buf = Expense /\ out = "Accepted")
        /\ FirstLetter(old) = "i" => (buf = Income /\ out = "Accepted")
        /\ FirstLetter(old) = "t" => (buf = Transfer /\ out = "Accepted")
        /\ FirstLetter(old) \notin {"e", "i", "t"} =>
              (buf = <<>> /\ out = "NotAccepted" /\ why = "InvalidTxType")
        /\ old = T_exp => (buf = Expense /\ out = "Accepted")
        /\ old = T_x => (buf = <<>> /\ out = "NotAccepted")

C11_Witness ==
    /\ field = "TxType" /\ op = "verify" /\ old = T_exp /\ buf = Expense /\ out = "Accepted"

\* C12: step_tx_type on a buffer its validator rejects (the first character that is not
\* a space is none of e, i, t in either case) still makes the cyclic rewrite from the
\* default index 0 and returns the failure InvalidTxType.
C12_RejectedTypeFails ==
    (field = "TxType" /\ op = "step" /\ FirstLetter(old) \notin {"", "e", "i", "t"}) =>
        /\ out = "Err" /\ why = "InvalidTxType"
        /\ buf = IF step_type = "StepUp" THEN tx_types[2] ELSE tx_types[3]

\* the type after t in the order Income, Expense, Transfer, Income
TypeAfter(t) == IF t = Income THEN Expense ELSE IF t = Expense THEN Transfer ELSE Income

\* the type an accepted buffer stands for, by its first letter
TypeOfLetter(c) == IF c = "i" THEN Income ELSE IF c = "e" THEN Expense ELSE Transfer

\* the buffer after three step_tx_type calls in one direction
ThreeTypeSteps(b, step) ==
    step_tx_type(step_tx_type(step_tx_type(b, step).buf, step).buf, step).buf

\* C13: step_tx_type on an Accepted buffer moves through Income, Expense, Transfer
\* modulo 3 (Increase: Income to Expense to Transfer to Income; Decrease the other
\* way), so three steps in one direction come back to the starting value; on a buffer
\* that is empty or holds spaces only it sets "Income" and returns Ok for both directions.
C13_TypeCycle ==
    (field = "TxType" /\ op = "step") =>
        /\ FirstLetter(old) \in {"e", "i", "t"} =>
              /\ out = "Ok"
              /\ step_type = "StepUp" => buf = TypeAfter(TypeOfLetter(FirstLetter(old)))
              /\ step_type = "StepDown" => TypeAfter(buf) = TypeOfLetter(FirstLetter(old))
              /\ buf \in {Income, Expense, Transfer}
              /\ \A step \in StepTypes : ThreeTypeSteps(buf, step) = buf
        /\ FirstLetter(old) = "" => (buf = Income /\ out = "Ok")

C13_Witness ==
    /\ field = "TxType" /\ op = "step" /\ step_type = "StepDown"
    /\ old = Income /\ buf = Transfer /\ out = "Ok"

\* the names of the list differ pairwise, ignoring case
DistinctAnyCase(list) ==
    \A i, j \in DOMAIN list : i # j => to_lowercase(list[i]) # to_lowercase(list[j])

RECURSIVE MethodWalk(_, _, _)
\* the buffers after 1, 2, .. k Increase steps from buffer b
MethodWalk(b, methods, k) ==
    IF k = 0 THEN <<>>
    ELSE <<step_tx_method(b, "StepUp", methods).buf>>
             \o MethodWalk(step_tx_method(b, "StepUp", methods).buf, methods, k - 1)

\* every entry of the list occurs in the walk exactly once
VisitsEachOnce(walk, list) ==
    /\ Len(walk) = Len(list)
    /\ \A i \in DOMAIN list : \E k \in DOMAIN walk : walk[k] = list[i]
    /\ \A k, l \in DOMAIN walk : k # l => walk[k] # walk[l]

\* C14: step_tx_method on an Accepted buffer, which holds the store method at index i
\* of n, sets the buffer to index (i+1) mod n on Increase and (i-1+n) mod n on Decrease;
\* so, for a store whose names differ pairwise ignoring case, n Increase steps in a row
\* visit every method once and come back to the start, and Increase followed by Decrease
\* changes nothing. On Rejected it returns InvalidTxMethod; on Empty with a store that
\* is not empty it sets the buffer to the first store entry.
C14_MethodCycle ==
    (field = "TxMethod" /\ op = "step") =>
        /\ (trim(old) # <<>> /\ StoreIndex(all_tx_methods, trim(old)) # 0) =>
              /\ out = "Ok"
              /\ buf = all_tx_methods[
                     IF step_type = "StepUp"
                     THEN (StoreIndex(all_tx_methods, trim(old)) % Len(all_tx_methods)) + 1
                     ELSE ((StoreIndex(all_tx_methods, trim(old)) + Len(all_tx_methods) - 2)
                               % Len(all_tx_methods)) + 1]
        /\ (trim(old) # <<>> /\ StoreIndex(all_tx_methods, trim(old)) = 0) =>
              (out = "Err" /\ why = "InvalidTxMethod")
        /\ (trim(old) = <<>> /\ all_tx_methods # <<>>) => (buf = all_tx_methods[1] /\ out = "Ok")
        /\ (out = "Ok" /\ DistinctAnyCase(all_tx_methods)) =>
              /\ VisitsEachOnce(MethodWalk(buf, all_tx_methods, Len(all_tx_methods)),
                                all_tx_methods)
              /\ MethodWalk(buf, all_tx_methods, Len(all_tx_methods))[Len(all_tx_methods)] = buf
              /\ step_tx_method(step_tx_method(buf, "StepUp", all_tx_methods).buf,
                                "StepDown", all_tx_methods).buf = buf

C14_Witness ==
    /\ field = "TxMethod" /\ op = "step" /\ step_type = "StepUp"
    /\ all_tx_methods = <<T_a, T_b, T_c>> /\ old = T_c /\ buf = T_a /\ out = "Ok"

T_2022_13_01 == <<"2", "0", "2", "2", "-", "1", "3", "-", "0", "1">>
T_2022_12_01 == <<"2", "0", "2", "2", "-", "1", "2", "-", "0", "1">>

\* C15: step_date on a buffer its validator rejects returns the failure InvalidDate
\* (the buffer keeps the correction the validator made, and no day is added or taken
\* away); on an empty buffer it sets the first date "2022-01-01" and returns Ok for
\* Increase and for Decrease.
C15_DateRejected ==
    (field = "Date" /\ op = "step") =>
        /\ verify_date(old).out = "NotAccepted" =>
              (out = "Err" /\ why = "InvalidDate" /\ buf = verify_date(old).buf)
        /\ old = T_2022_13_01 => (out = "Err" /\ buf = T_2022_12_01)
        /\ old = <<>> => (buf = FloorDate /\ out = "Ok")

C15_Witness ==
    /\ field = "Date" /\ op = "step" /\ step_type = "StepDown"
    /\ old = T_2022_13_01 /\ buf = T_2022_12_01 /\ out = "Err" /\ why = "InvalidDate"

\* C15, the empty buffer: a Decrease step on it has set the first date
C15_WitnessEmpty ==
    /\ field = "Date" /\ op = "step" /\ step_type = "StepDown"
    /\ old = <<>> /\ buf = FloorDate /\ out = "Ok"

\* what C16 says of a step in direction step that left buffer b with outcome o, reason w,
\* when the validator returned v
RejectedAmountStep(v, step, b, o, w) ==
    /\ (v.out = "NotAccepted" /\ v.why = "AmountBelowZero" /\ step = "StepUp") =>
          (b = OneAmount /\ o = "Ok")
    /\ (v.out = "NotAccepted" /\ v.why = "AmountBelowZero" /\ step = "StepDown") =>
          (b = v.buf /\ o = "Ok")
    /\ (v.out = "NotAccepted" /\ v.why # "AmountBelowZero") =>
          (o = "Err" /\ w = "InvalidAmount")
    /\ v.out = "Nothing" => (b = OneAmount /\ o = "Ok")

T_5DotDot == <<"5", ".", ".">>

\* C16: step_amount when the validator rejects: with the below-zero reason, an Increase
\* step makes the buffer "1.00" and returns Ok, a Decrease step returns Ok and leaves
\* the magnitude the validator wrote; with any other reason (parsing error) the step
\* fails with InvalidAmount; on an empty buffer the buffer becomes "1.00" for both directions.
C16_AmountRejected ==
    (field = "Amount" /\ op = "step") =>
        /\ \E tie \in BOOLEAN : RejectedAmountStep(verify_amount(old, tie), step_type, buf, out, why)
        /\ (old = T_1Minus3 /\ step_type = "StepUp") => (buf = OneAmount /\ out = "Ok")
        /\ (old = T_1Minus3 /\ step_type = "StepDown") => (buf = T_2_00 /\ out = "Ok")
        /\ old = T_5DotDot => (out = "Err" /\ why = "InvalidAmount")
        /\ old = <<>> => (buf = OneAmount /\ out = "Ok")

C16_Witness ==
    /\ field = "Amount" /\ op = "step" /\ step_type = "StepDown"
    /\ old = T_1Minus3 /\ buf = T_2_00 /\ out = "Ok"

\* the comma-segments of a tag buffer, each without its surrounding whitespace
Segments(s) == MapSeq(trim, Split(s, ","))

\* the segments before the last one are the same in a and in b
SameEarlierSegments(a, b) ==
    /\ Len(b) >= Len(a) - 1
    /\ \A i \in 1..(Len(a) - 1) : b[i] = a[i]

\* the step had nothing to put in the place of an empty last segment
DropsLastSegment(s, tags) ==
    Len(Segments(s)) > 1 /\ Segments(s)[Len(Segments(s))] = <<>> /\ tags = <<>>

T_aComma == <<"a", ",">>

\* C17 as stated: step_tags on a buffer that is not empty keeps the number of segments
\* and every segment before the last, for every buffer, store, hint and direction.
C17_Original ==
    (field = "Tags" /\ op = "step" /\ old # <<>>) =>
        /\ Len(Segments(buf)) = Len(Segments(old))
        /\ SameEarlierSegments(Segments(old), Segments(buf))

\* C17: step_tags on a buffer that is not empty leaves every segment before the last
\* as it was (up to surrounding whitespace), whether it returns Ok or InvalidTags, and
\* keeps the number of segments, except that an empty last segment is dropped when the
\* store has no tag to put there ("a," becomes "a"); the hint holds no comma.
C17_LastSegmentOnly ==
    (field = "Tags" /\ op = "step" /\ old # <<>>) =>
        /\ SameEarlierSegments(Segments(old), Segments(buf))
        /\ IF DropsLastSegment(old, all_tags)
           THEN Len(Segments(buf)) = Len(Segments(old)) - 1
           ELSE Len(Segments(buf)) = Len(Segments(old))
        /\ (old = T_aComma /\ all_tags = <<>>) => (buf = T_a /\ out = "Ok")

C17_Witness ==
    /\ field = "Tags" /\ op = "step" /\ old = T_aComma /\ all_tags = <<>>
    /\ buf = T_a /\ out = "Ok"

\* an amount text in the form the validator means to leave: digits around one '.',
\* two decimals, an integer part of at most 10 characters
IsCanonicalForm(s) ==
    /\ HasTwoDecimals(s)
    /\ Len(Split(s, ".")[1]) <= MaxIntegerChars

\* the text denotes a value greater than 0: one of its digits is not 0
IsAboveZero(s) == \E i \in DOMAIN s : s[i] \in Digits \ {"0"}

T_ElevenDigits == <<"1", "2", "3", "4", "5", "6", "7", "8", "9", "0", "1">>
T_TenDigits_00 == <<"1", "2", "3", "4", "5", "6", "7", "8", "9", "0", ".", "0", "0">>

\* the form alone: what verify_amount leaves on Accepted has digits around one '.', two
\* decimals and at most 10 integer characters, a longer integer part cut to its first 10
C18_Form ==
    (field = "Amount" /\ op = "verify" /\ out = "Accepted") =>
        /\ IsCanonicalForm(buf)
        /\ old = T_ElevenDigits => buf = T_TenDigits_00

\* C18: whenever verify_amount returns Accepted the buffer is in canonical amount form:
\* only digits and one '.', exactly 2 fractional digits, an integer part of at most 10
\* characters (a longer one is cut to its first 10), and its value is greater than 0.
C18_Canonical ==
    (field = "Amount" /\ op = "verify" /\ out = "Accepted") =>
        /\ IsCanonicalForm(buf)
        /\ old = T_ElevenDigits => buf = T_TenDigits_00
        /\ IsAboveZero(buf)

\* the three segments verify_date works on, for a buffer that has three
DateParts(s) == Split(SelectSeq(s, DateKeepChar), "-")

\* the buffer reaches the checks of verify_date: three segments, each a number
IsCheckable(s) ==
    /\ s # <<>>
    /\ Len(DateParts(s)) = 3
    /\ \A i \in 1..3 : ParseU32(DateParts(s)[i]).ok

\* the checks in the order C19 gives them: whether the check is violated, and its reason
DateChecks(p) ==
    <<[bad |-> Len(p[1]) # 4, why |-> "InvalidYear"],
      [bad |-> Len(p[2]) # 2, why |-> "InvalidMonth"],
      [bad |-> Len(p[3]) # 2, why |-> "InvalidDay"],
      [bad |-> ParseU32(p[1]).val < 2022 \/ ParseU32(p[1]).val > 2037, why |-> "YearTooBig"],
      [bad |-> ParseU32(p[2]).val < 1 \/ ParseU32(p[2]).val > 12, why |-> "MonthTooBig"],
      [bad |-> ParseU32(p[3]).val < 1 \/ ParseU32(p[3]).val > 31, why |-> "DayTooBig"],
      [bad |-> ~DateExists(ParseU32(p[1]).val, ParseU32(p[2]).val, ParseU32(p[3]).val),
       why |-> "NonExistingDate"]>>

\* the reason of the first violated check, "none" if every check passes
FirstViolation(checks) ==
    IF \E i \in DOMAIN checks : checks[i].bad
    THEN checks[CHOOSE i \in DOMAIN checks :
             checks[i].bad /\ \A j \in 1..(i - 1) : ~checks[j].bad].why
    ELSE "none"

\* how many of the three segments differ between p and q
RewrittenSegments(p, q) == Cardinality({i \in 1..3 : p[i] # q[i]})

T_1_1_1 == <<"1", "-", "1", "-", "1">>
T_2022_1_1 == <<"2", "0", "2", "2", "-", "1", "-", "1">>
T_2022_01_1 == <<"2", "0", "2", "2", "-", "0", "1", "-", "1">>

\* C19: verify_date checks, in this order, the length of the year, of the month and of
\* the day segment, the year range [2022,2037], the month range [1,12], the day range
\* [1,31] and the existence of the date, and returns at the first violated check with
\* the reason of that check; so one call rewrites at most one of the three segments,
\* and "1-1-1" needs one call per violation (InvalidYear, InvalidMonth, InvalidDay)
\* before a call returns Accepted.
C19_CheckOrder ==
    (field = "Date" /\ op = "verify" /\ IsCheckable(old)) =>
        /\ why = FirstViolation(DateChecks(DateParts(old)))
        /\ out = IF why = "none" THEN "Accepted" ELSE "NotAccepted"
        /\ Len(Split(buf, "-")) = 3
        /\ RewrittenSegments(DateParts(old), Split(buf, "-")) <= 1
        /\ old = T_1_1_1 => (why = "InvalidYear" /\ buf = T_2022_1_1)
        /\ old = T_2022_1_1 => (why = "InvalidMonth" /\ buf = T_2022_01_1)
        /\ old = T_2022_01_1 => (why = "InvalidDay" /\ buf = FloorDate)
        /\ old = FloorDate => (out = "Accepted" /\ buf = FloorDate)

C19_Witness ==
    /\ field = "Date" /\ op = "verify" /\ old = T_2022_01_1
    /\ buf = FloorDate /\ out = "NotAccepted" /\ why = "InvalidDay"

\* where the matched text left<op>right begins in working string w (characters before it)
MatchStart(w) ==
    find(w, SelectedSymbol(w)) - Len(first_value(w, find(w, SelectedSymbol(w))))

\* the number of characters of w after the matched text
MatchRest(w) ==
    Len(w) - (find(w, SelectedSymbol(w)) + 1 + Len(last_value(w, find(w, SelectedSymbol(w)))))

\* after is before with nothing changed outside the matched text
OnlyMatchReplaced(before, after) ==
    /\ Len(after) >= MatchStart(before) + MatchRest(before)
    /\ SubSeq(after, 1, MatchStart(before)) = SubSeq(before, 1, MatchStart(before))
    /\ SubSeq(after, Len(after) - MatchRest(before) + 1, Len(after))
           = SubSeq(before, Len(before) - MatchRest(before) + 1, Len(before))

T_2x2Plus12x2 == <<"2", "*", "2", "+", "1", "2", "*", "2">>
T_4_00Plus12x2 == <<"4", ".", "0", "0", "+", "1", "2", "*", "2">>
T_28_00 == <<"2", "8", ".", "0", "0">>

\* C20: in each evaluation pass of verify_amount only the one matched occurrence of
\* left<op>right, the operands next to the selected operator, is replaced by its result;
\* every other place of the working string where the same text occurs, also inside a
\* longer number (the "2*2" inside "12*2" in "2*2+12*2"), is left as it was.
C20_OneOccurrence ==
    (field = "Amount" /\ op = "verify") =>
        /\ \A i \in DOMAIN work :
              SelectedSymbol(BeforePass(old, work, i)) # "" =>
                  OnlyMatchReplaced(BeforePass(old, work, i), work[i])
        /\ old = T_2x2Plus12x2 => (work[1] = T_4_00Plus12x2 /\ buf = T_28_00)

\* the text holds an operator symbol; the sign in front of a negative number is none
HasCalcSymbol(s) == \E i \in DOMAIN s : IsCalcSymbol(s[i]) /\ ~(i = 1 /\ s[i] = "-")

\* the evaluation loop of the call ran all its passes: one per operator symbol of the
\* filtered input
LoopRanOut(text, passes) ==
    /\ passes # <<>>
    /\ Len(passes) = Len(SelectSeq(SelectSeq(text, AmountKeepChar), IsCalcSymbol))

\* C21: after the evaluation loop of verify_amount, which runs once per operator symbol
\* of the filtered input, the working string holds no operator symbol for every input,
\* also when an intermediate result is negative ("1-3-1"); so no operator character is
\* left in the buffer when verify_amount returns.
C21_NoOperatorLeft ==
    (field = "Amount" /\ op = "verify" /\ LoopRanOut(old, work)) =>
        /\ ~HasCalcSymbol(work[Len(work)])
        /\ ~HasCalcSymbol(buf)

\* verify_amount accepts the buffer for some rounding of a tie
IsAcceptedAmount(s) == \E tie \in BOOLEAN : verify_amount(s, tie).out = "Accepted"

\* verify_amount accepts the buffer and leaves it as it is
IsAcceptedUnchanged(s) ==
    \A tie \in BOOLEAN : verify_amount(s, tie).out = "Accepted" /\ verify_amount(s, tie).buf = s

\* an amount text in canonical form, hence of a value within [0.00, 9999999999.99],
\* that verify_amount accepts unchanged
IsClosedAmount(s) == IsCanonicalForm(s) /\ IsAcceptedUnchanged(s)

\* as IsClosedAmount, but a value of 0.00 need not be accepted
IsSteppedAmount(s) == IsCanonicalForm(s) /\ (IsAboveZero(s) => IsAcceptedUnchanged(s))

T_1_00 == <<"1", ".", "0", "0">>

\* C22 as stated: from a buffer verify_amount accepts, every successful step_amount
\* leaves a buffer verify_amount accepts unchanged, of a value within [0.00, 9999999999.99];
\* the buffers so reached are themselves starting points of the next step.
C22_Original ==
    (field = "Amount" /\ op = "step" /\ out = "Ok"
        /\ (IsAcceptedAmount(old) \/ IsClosedAmount(old))) => IsClosedAmount(buf)

\* C22: from a buffer verify_amount accepts, after any sequence of successful
\* step_amount calls the buffer is in canonical form with a value within
\* [0.00, 9999999999.99], and verify_amount accepts it unchanged unless its value is
\* 0.00, which a Decrease reaches ("1.00" becomes "0.00") and verify_amount rejects.
C22_SteppingClosed ==
    (field = "Amount" /\ op = "step" /\ out = "Ok"
        /\ (IsAcceptedAmount(old) \/ IsSteppedAmount(old))) =>
        /\ IsSteppedAmount(buf)
        /\ (old = T_1_00 /\ step_type = "StepDown") =>
              (buf = T_0_00 /\ ~IsAcceptedAmount(buf))

C22_Witness ==
    /\ field = "Amount" /\ op = "step" /\ step_type = "StepDown" /\ out = "Ok"
    /\ old = T_1_00 /\ buf = T_0_00

\* a real calendar date in YYYY-MM-DD form within [2022-01-01, 2037-12-31] that
\* verify_date accepts and leaves as it is
IsClosedDate(s) ==
    /\ IsCalendarText(s)
    /\ ParseDate(s).y \in 2022..2037
    /\ verify_date(s).out = "Accepted" /\ verify_date(s).buf = s

\* the buffer after a step in direction first and then a step in direction second
TwoDateSteps(s, first, second) == step_date(step_date(s, first).buf, second).buf

T_2024_02_28 == <<"2", "0", "2", "4", "-", "0", "2", "-", "2", "8">>
T_2024_02_29 == <<"2", "0", "2", "4", "-", "0", "2", "-", "2", "9">>

\* C23: date stepping is closed and reversible: from an empty buffer or a buffer
\* verify_date accepts, every step_date call returns Ok and leaves a real calendar date
\* in YYYY-MM-DD form within [2022-01-01, 2037-12-31] that verify_date accepts unchanged
\* (so the next call starts from such a buffer again); an Increase followed by a
\* Decrease gives the date back unless it is 2037-12-31, and a Decrease followed by an
\* Increase does unless it is 2022-01-01.
C23_DateClosed ==
    (field = "Date" /\ op = "step" /\ (old = <<>> \/ verify_date(old).out = "Accepted")) =>
        /\ out = "Ok"
        /\ IsClosedDate(buf)
        /\ buf # CeilingDate => TwoDateSteps(buf, "StepUp", "StepDown") = buf
        /\ buf # FloorDate => TwoDateSteps(buf, "StepDown", "StepUp") = buf
        /\ (verify_date(old).out = "Accepted" /\ verify_date(old).buf # CeilingDate) =>
              TwoDateSteps(old, "StepUp", "StepDown") = verify_date(old).buf
        /\ (verify_date(old).out = "Accepted" /\ verify_date(old).buf # FloorDate) =>
              TwoDateSteps(old, "StepDown", "StepUp") = verify_date(old).buf

C23_Witness ==
    /\ field = "Date" /\ op = "step" /\ step_type = "StepUp" /\ out = "Ok"
    /\ old = T_2024_02_28 /\ buf = T_2024_02_29

\* the most verify_date calls a buffer is given to settle: one per check, and one more
MaxDateCalls == 8

\* three segments separated by '-', each made of digits and not empty
IsThreeDigitSegments(s) ==
    /\ Len(Split(s, "-")) = 3
    /\ \A i \in 1..3 : Split(s, "-")[i] # <<>> /\ AllDigits(Split(s, "-")[i])

RECURSIVE Settles(_, _)
\* verify_date, called again and again on its own output, returns Accepted or
\* Rejected(NonExistingDate) within k calls
Settles(s, k) ==
    /\ k > 0
    /\ \/ verify_date(s).out = "Accepted"
       \/ verify_date(s).why = "NonExistingDate"
       \/ Settles(verify_date(s).buf, k - 1)

T_2022_010_01 == <<"2", "0", "2", "2", "-", "0", "1", "0", "-", "0", "1">>

\* C24: repeated date validation converges: for every buffer of three non-empty digit
\* segments separated by '-', verify_date called on its own output reaches Accepted or
\* Rejected(NonExistingDate) after a bounded number of calls; a rejection for the length
\* of the month or of the day leaves that segment exactly 2 characters long, also for a
\* segment of 3 characters with value 10..12 (month, "2022-010-01") or 10..31 (day).
C24_Converges ==
    /\ (field = "Date" /\ IsThreeDigitSegments(buf)) => Settles(buf, MaxDateCalls)
    /\ (field = "Date" /\ op = "verify" /\ IsThreeDigitSegments(old)) =>
          /\ why = "InvalidMonth" => Len(Split(buf, "-")[2]) = 2
          /\ why = "InvalidDay" => Len(Split(buf, "-")[3]) = 2

====
